---- MODULE Spec2Model ----
(***************************************************************************)
(* helios-proof-relayer: the poll loop (relayer mode and health-check      *)
(* mode, src/main.rs), the SQLite store behind one Mutex (src/db.rs), the  *)
(* prover/registry HTTP calls (src/relayer.rs) and the /health handler     *)
(* (src/api.rs).                                                           *)
(*                                                                         *)
(* Time is counted in minutes.  Option<T> is a sequence of length 0 (None) *)
(* or 1 (Some(x)); a table is the sequence of its rows in id order.        *)
(***************************************************************************)
EXTENDS Integers, Sequences, FiniteSets, TLC

\* ---------------------------------------------------------------- bounds

\* Minutes the wall clock may advance during one run of the model.
MaxTicks == 2

\* Age in minutes, at process start, of the rows a previous run left behind.
StaleAge == 29

\* ------------------------------------------------------ program constants

\* api.rs: chrono::Duration::minutes(30)
HealthyMinutes == 30

\* main.rs: sleep(Duration::from_secs(30)) of the relayer loop
RelayerSleepSecs == 30

\* main.rs: sleep(Duration::from_secs(120)) of the health-check loop
HealthSleepSecs == 120

\* borsh: a u64 is 8 little-endian bytes, the root is [u8; 32]
U64Bytes == 8
RootBytes == 32

\* ---------------------------------------------------------------- Option

None == <<>>
Some(x) == <<x>>
IsSome(o) == o # <<>>
Unwrap(o) == o[1]

\* ------------------------------------------------------------ conversions

HexDigits == <<"0", "1", "2", "3", "4", "5", "6", "7",
               "8", "9", "a", "b", "c", "d", "e", "f">>

\* hex::encode: two lower-case digits per byte, high nibble first.
RECURSIVE HexEncode(_)
HexEncode(bytes) ==
    IF bytes = <<>> THEN <<>>
    ELSE <<HexDigits[(bytes[1] \div 16) + 1], HexDigits[(bytes[1] % 16) + 1]>>
         \o HexEncode(Tail(bytes))

\* borsh's encoding of an unsigned integer in n little-endian bytes.
RECURSIVE LittleEndian(_, _)
LittleEndian(v, n) ==
    IF n = 0 THEN <<>> ELSE <<v % 256>> \o LittleEndian(v \div 256, n - 1)

RECURSIVE FromLittleEndian(_)
FromLittleEndian(bytes) ==
    IF bytes = <<>> THEN 0 ELSE bytes[1] + 256 * FromLittleEndian(Tail(bytes))

\* borsh::from_slice::<WrapperCircuitOutputs>: the record { height: u64,
\* root: [u8; 32] } read flat; fewer bytes, or bytes left over, is an error.
BorshFromSlice(bytes) ==
    IF Len(bytes) # U64Bytes + RootBytes
    THEN [ok |-> FALSE, height |-> 0, root |-> <<>>]
    ELSE [ok |-> TRUE,
          height |-> FromLittleEndian(SubSeq(bytes, 1, U64Bytes)),
          root |-> SubSeq(bytes, U64Bytes + 1, U64Bytes + RootBytes)]

\* DateTime::to_rfc3339 and DateTime::parse_from_rfc3339: the TEXT column
\* holds the formatted instant.
ToRfc3339(t) == <<"rfc3339", t>>
ParseFromRfc3339(s) == s[2]

\* ----------------------------------------------------------------- inputs

RootA == [i \in 1..RootBytes |-> 17]
RootB == [i \in 1..RootBytes |-> 171]

\* What the prover endpoint can serve: two proofs with well-formed public
\* values, and one whose public values are truncated.
ProofA == [bytes |-> <<1, 171>>, public_values |-> LittleEndian(1, U64Bytes) \o RootA]
ProofB == [bytes |-> <<2, 205>>, public_values |-> LittleEndian(2, U64Bytes) \o RootB]
ProofBad == [bytes |-> <<255>>, public_values |-> LittleEndian(3, U64Bytes)]
RawProofs == {ProofA, ProofB, ProofBad}

\* The rows a previous run of the program left in the database file.
StaleHealthRow ==
    [current_height |-> 1, current_root |-> RootA, timestamp |-> ToRfc3339(0)]
StaleProofRow ==
    [proof_data |-> HexEncode(ProofA.bytes), timestamp |-> ToRfc3339(0)]

\* ------------------------------------------------------------------ state

VARIABLES
    mode,             \* cargo feature: "relayer" or "health"
    clock,            \* chrono::Utc::now(), in minutes
    conn,             \* Database.conn: who holds the Mutex
    health_check,     \* table health_check
    previous_proof_t, \* table previous_proof
    pc,               \* position of main (relayer) / of the health-check task
    proof,            \* Option: the proof get_proof returned
    previous_proof,   \* Option<String>: the value the loop compares against
    current_proof,    \* hex of the fetched proof's bytes
    health_data,      \* Option<HealthCheckData> being written
    proof_data,       \* Option<PreviousProof> being written
    apiPc,            \* position of the API task / of one GET /health
    api_result,       \* Option: what get_latest_health_check returned
    api_now,          \* Option: the handler's `now`
    response,         \* Option: the last HTTP response of GET /health
    hist              \* observer: what the current poll cycle fetched, sent,
                      \* wrote and slept, what the store has held, and the
                      \* timestamp of the last snapshot written by this process

vars == <<mode, clock, conn, health_check, previous_proof_t, pc, proof,
          previous_proof, current_proof, health_data, proof_data,
          apiPc, api_result, api_now, response, hist>>

engineVars == <<pc, proof, previous_proof, current_proof, health_data, proof_data>>
apiVars == <<apiPc, api_result, api_now, response>>
tables == <<health_check, previous_proof_t>>

\* hist at process start: nothing fetched, forwarded or written yet.
HistInit(hadFp) ==
    [fetched |-> None, repeat |-> FALSE, fpAtStart |-> None,
     answer |-> "none", writes |-> 0, readErr |-> FALSE,
     storageErr |-> FALSE, lastFailed |-> None, waited |-> 0,
     hadSnapshot |-> FALSE, hadFingerprint |-> hadFp, lastObserved |-> None]

Init ==
    /\ mode \in {"relayer", "health"}
    /\ \E stale \in BOOLEAN :
        /\ clock = IF stale THEN StaleAge ELSE 0
        /\ health_check = IF stale /\ mode = "health" THEN <<StaleHealthRow>> ELSE <<>>
        /\ previous_proof_t = IF stale THEN <<StaleProofRow>> ELSE <<>>
    /\ conn = "free"
    /\ pc = IF mode = "relayer" THEN "r_init" ELSE "h_clear"
    /\ proof = None
    /\ previous_proof = None
    /\ current_proof = <<>>
    /\ health_data = None
    /\ proof_data = None
    /\ apiPc = "not_started"
    /\ api_result = None
    /\ api_now = None
    /\ response = None
    /\ hist = HistInit(mode = "relayer" /\ previous_proof_t # <<>>)

\* --------------------------------------------------------------- db.rs

\* Lock as it would be without mutual exclusion (each caller opening its own
\* Connection instead of sharing the Mutex).
LockNoExclusion(who) == conn' = who

\* self.conn.lock().unwrap(): blocks until the Mutex is free.  No holder
\* ever panics, so the lock is never poisoned.
Lock(who) == conn = "free" /\ conn' = who

\* Unlock as it would be if the guard outlived the store call.
UnlockLeaked == UNCHANGED conn

\* The MutexGuard is dropped when the function returns.
Unlock == conn' = "free"

\* HealthRow as it would be if the height parameter were not bound.
HealthRowZeroed(data) ==
    [current_height |-> 0,
     current_root |-> data.current_root,
     timestamp |-> ToRfc3339(data.timestamp)]

\* The row update_health_check inserts.
HealthRow(data) ==
    [current_height |-> data.current_height,
     current_root |-> data.current_root,
     timestamp |-> ToRfc3339(data.timestamp)]

\* ProofRow as it would be if the proof parameter were not bound.
ProofRowBlank(p) ==
    [proof_data |-> <<>>, timestamp |-> ToRfc3339(p.timestamp)]

\* The row update_previous_proof inserts.
ProofRow(p) ==
    [proof_data |-> p.proof_data, timestamp |-> ToRfc3339(p.timestamp)]

\* What get_latest_health_check makes of the latest row.
HealthDataOf(table) ==
    IF table = <<>> THEN None
    ELSE LET row == table[Len(table)]
         IN  Some([current_height |-> row.current_height,
                   current_root |-> row.current_root,
                   timestamp |-> ParseFromRfc3339(row.timestamp)])

\* What get_previous_proof makes of the latest row.
PreviousProofOf(table) ==
    IF table = <<>> THEN None
    ELSE LET row == table[Len(table)]
         IN  Some([proof_data |-> row.proof_data,
                   timestamp |-> ParseFromRfc3339(row.timestamp)])

\* main.rs 39-42 and 128-130: the proof_data of what get_previous_proof
\* returned.
StoredFingerprint(table) ==
    LET prev == PreviousProofOf(table)
    IN  IF prev = None THEN None ELSE Some(Unwrap(prev).proof_data)

\* A store call that returned Err(StorageError) in the current cycle.
StorageErr(h) == [h EXCEPT !.storageErr = TRUE]

\* update_health_check: lock, DELETE FROM health_check, INSERT, return.  Each
\* statement runs in SQLite's autocommit mode; a failing statement returns
\* Err through `?` and drops the guard.
update_health_check_lock ==
    /\ pc = "uhc_lock"
    /\ Lock("engine")
    /\ pc' = "uhc_delete"
    /\ hist' = [hist EXCEPT !.writes = 1]
    /\ UNCHANGED <<mode, clock, tables, proof, previous_proof, current_proof,
                   health_data, proof_data, apiVars>>

\* main.rs 198-202, after update_health_check returned either way: the
\* PreviousProof to store, stamped with the time of its construction.
NewProofData == Some([proof_data |-> current_proof, timestamp |-> clock])

\* update_health_check_delete with the DELETE left out.
update_health_check_keep_rows ==
    /\ pc = "uhc_delete"
    /\ pc' = "uhc_insert"
    /\ UNCHANGED <<mode, clock, conn, tables, proof, previous_proof,
                   current_proof, health_data, proof_data, apiVars, hist>>

update_health_check_delete ==
    /\ pc = "uhc_delete"
    /\ \/ /\ health_check' = <<>>
          /\ pc' = "uhc_insert"
          /\ UNCHANGED <<conn, proof_data, hist>>
       \/ /\ Unlock
          /\ pc' = "upp_lock"
          /\ proof_data' = NewProofData
          /\ hist' = StorageErr(hist)
          /\ UNCHANGED health_check
    /\ UNCHANGED <<mode, clock, previous_proof_t, proof, previous_proof,
                   current_proof, health_data, apiVars>>

update_health_check_insert ==
    /\ pc = "uhc_insert"
    /\ \/ /\ health_check' = Append(health_check, HealthRow(Unwrap(health_data)))
          /\ hist' = [hist EXCEPT !.hadSnapshot = TRUE,
                                  !.lastObserved = Some(Unwrap(health_data).timestamp)]
       \/ /\ hist' = StorageErr(hist)
          /\ UNCHANGED health_check
    /\ Unlock
    /\ pc' = "upp_lock"
    /\ proof_data' = NewProofData
    /\ UNCHANGED <<mode, clock, previous_proof_t, proof, previous_proof,
                   current_proof, health_data, apiVars>>

\* Where the loop goes once its last store call has returned.
SleepPc == IF mode = "relayer" THEN "r_sleep" ELSE "h_sleep"

\* update_previous_proof: lock, DELETE FROM previous_proof, INSERT, return.
update_previous_proof_lock ==
    /\ pc = "upp_lock"
    /\ Lock("engine")
    /\ pc' = "upp_delete"
    /\ hist' = [hist EXCEPT !.writes = @ + 1]
    /\ UNCHANGED <<mode, clock, tables, proof, previous_proof, current_proof,
                   health_data, proof_data, apiVars>>

update_previous_proof_delete ==
    /\ pc = "upp_delete"
    /\ \/ /\ previous_proof_t' = <<>>
          /\ pc' = "upp_insert"
          /\ UNCHANGED <<conn, hist>>
       \/ /\ Unlock
          /\ pc' = SleepPc
          /\ hist' = StorageErr(hist)
          /\ UNCHANGED previous_proof_t
    /\ UNCHANGED <<mode, clock, health_check, proof, previous_proof,
                   current_proof, health_data, proof_data, apiVars>>

update_previous_proof_insert ==
    /\ pc = "upp_insert"
    /\ \/ /\ previous_proof_t' = Append(previous_proof_t, ProofRow(Unwrap(proof_data)))
          /\ hist' = [hist EXCEPT !.hadFingerprint = TRUE]
       \/ /\ hist' = StorageErr(hist)
          /\ UNCHANGED previous_proof_t
    /\ Unlock
    /\ pc' = SleepPc
    /\ UNCHANGED <<mode, clock, health_check, proof, previous_proof,
                   current_proof, health_data, proof_data, apiVars>>

\* clear_all_tables (health-check mode, once, before the tasks are spawned):
\* lock, DELETE FROM health_check, DELETE FROM previous_proof, return.  main
\* only warns when it fails, and then spawns the two tasks.
clear_all_tables_lock ==
    /\ pc = "h_clear"
    /\ Lock("engine")
    /\ pc' = "clear_health_check"
    /\ UNCHANGED <<mode, clock, tables, proof, previous_proof, current_proof,
                   health_data, proof_data, apiVars, hist>>

clear_all_tables_health_check ==
    /\ pc = "clear_health_check"
    /\ \/ /\ health_check' = <<>>
          /\ pc' = "clear_previous_proof"
          /\ UNCHANGED <<conn, apiPc, hist>>
       \/ /\ Unlock
          /\ pc' = "h_fetch"
          /\ apiPc' = "starting"
          /\ UNCHANGED health_check
          /\ hist' = [hist EXCEPT !.hadSnapshot = health_check # <<>>,
                                  !.hadFingerprint = previous_proof_t # <<>>]
    /\ UNCHANGED <<mode, clock, previous_proof_t, proof, previous_proof,
                   current_proof, health_data, proof_data, api_result, api_now,
                   response>>

clear_all_tables_previous_proof ==
    /\ pc = "clear_previous_proof"
    /\ \/ previous_proof_t' = <<>>
       \/ UNCHANGED previous_proof_t
    /\ Unlock
    /\ pc' = "h_fetch"
    /\ apiPc' = "starting"
    /\ hist' = [hist EXCEPT !.hadSnapshot = FALSE,
                            !.hadFingerprint = previous_proof_t' # <<>>]
    /\ UNCHANGED <<mode, clock, health_check, proof, previous_proof,
                   current_proof, health_data, proof_data, api_result, api_now,
                   response>>

\* ----------------------------------------------------------- relayer.rs

\* get_proof: Err on a transport failure, a non-success status, a body that
\* is not hex, or bytes that do not deserialize; Ok(proof) otherwise.
GetProofErrors == {"transport", "http_status", "hex_decode", "deserialize"}
GetProofResults ==
    {[ok |-> FALSE, err |-> e, proof |-> None] : e \in GetProofErrors}
    \cup {[ok |-> TRUE, err |-> "", proof |-> Some(p)] : p \in RawProofs}

\* create_payload: the JSON body { proof, public_values, vk }, hex-encoded.
Payload(p) ==
    [proof |-> HexEncode(p.bytes),
     public_values |-> HexEncode(p.public_values),
     vk |-> "LIGHT_CLIENT_VK"]

\* send: the POST can fail before the registry sees it, the registry can
\* answer with a success or a non-success status, and reading the response
\* body can fail after the registry answered.
SendOutcomes == {"connect_error", "success", "non_success", "body_error"}

\* SendReturnsOk as it would be if the result of send were ignored.
SendReturnsOkAlways(outcome) == TRUE

\* send returns Err only through its two `?`: it never looks at the status.
SendReturnsOk(outcome) == outcome \in {"success", "non_success"}

\* ------------------------------------------------- main.rs, both loops

\* hist when a cycle starts with the fetch result r, the engine holding
\* fingerprint fp.
NewCycle(h, r, fp) ==
    [h EXCEPT !.fetched = IF r.ok THEN Some(HexEncode(Unwrap(r.proof).bytes)) ELSE None,
              !.repeat = r.ok /\ h.fetched = Some(HexEncode(Unwrap(r.proof).bytes)),
              !.fpAtStart = fp,
              !.answer = "none", !.writes = 0, !.readErr = FALSE,
              !.storageErr = FALSE, !.waited = 0]

\* ShouldSend as it would be without the comparison.
ShouldSendAlways(prev, cur) == TRUE

\* main.rs 52-61 and 139-154: the proof is new when nothing is held or the
\* held fingerprint differs.
ShouldSend(prev, cur) == prev = None \/ Unwrap(prev) # cur

\* ----------------------------------------------- main.rs, relayer mode

\* main.rs 39: db.get_previous_proof()? before the loop.
relayer_get_previous_proof_lock ==
    /\ pc = "r_init"
    /\ Lock("engine")
    /\ pc' = "r_init_query"
    /\ UNCHANGED <<mode, clock, tables, proof, previous_proof, current_proof,
                   health_data, proof_data, apiVars, hist>>

relayer_get_previous_proof ==
    /\ pc = "r_init_query"
    /\ Unlock
    /\ \/ /\ pc' = "r_fetch"
          /\ previous_proof' = StoredFingerprint(previous_proof_t)
       \/ /\ pc' = "exited"
          /\ UNCHANGED previous_proof
    /\ UNCHANGED <<mode, clock, tables, proof, current_proof,
                   health_data, proof_data, apiVars, hist>>

\* main.rs 46-61 and 82-88: create_payload, then the comparison.
relayer_create_payload ==
    /\ pc = "r_fetch"
    /\ \E r \in GetProofResults :
        /\ hist' = NewCycle(hist, r, previous_proof)
        /\ IF r.ok
           THEN /\ proof' = r.proof
                /\ current_proof' = Payload(Unwrap(r.proof)).proof
                /\ pc' = IF ShouldSend(previous_proof, current_proof')
                         THEN "r_send" ELSE "r_sleep"
           ELSE /\ pc' = "r_sleep"
                /\ UNCHANGED <<proof, current_proof>>
    /\ UNCHANGED <<mode, clock, conn, tables, previous_proof, health_data,
                   proof_data, apiVars>>

\* main.rs 64-81: send, and on Ok remember the proof and go on to store it.
relayer_send ==
    /\ pc = "r_send"
    /\ \E outcome \in SendOutcomes :
        /\ IF SendReturnsOk(outcome)
           THEN /\ previous_proof' = Some(current_proof)
                /\ proof_data' = NewProofData
                /\ pc' = "upp_lock"
                /\ hist' = [hist EXCEPT !.answer = outcome, !.lastFailed = None]
           ELSE /\ pc' = "r_sleep"
                /\ hist' = [hist EXCEPT !.answer = outcome,
                                        !.lastFailed = Some(current_proof)]
                /\ UNCHANGED <<previous_proof, proof_data>>
    /\ UNCHANGED <<mode, clock, conn, tables, proof, current_proof, health_data,
                   apiVars>>

\* main.rs 90: the payload and the PreviousProof go out of scope.
relayer_sleep ==
    /\ pc = "r_sleep"
    /\ pc' = "r_fetch"
    /\ proof' = None
    /\ current_proof' = <<>>
    /\ proof_data' = None
    /\ hist' = [hist EXCEPT !.waited = @ + RelayerSleepSecs]
    /\ UNCHANGED <<mode, clock, conn, tables, previous_proof, health_data,
                   apiVars>>

\* ------------------------------------------- main.rs, health-check mode

\* health_get_proof as it would be with get_proof().await.unwrap().
health_get_proof_unwrap ==
    /\ pc = "h_fetch"
    /\ \E r \in GetProofResults :
        /\ hist' = NewCycle(hist, r, StoredFingerprint(previous_proof_t))
        /\ proof' = r.proof
        /\ pc' = IF r.ok THEN "gpp_lock" ELSE "panicked"
    /\ UNCHANGED <<mode, clock, conn, tables, previous_proof, current_proof,
                   health_data, proof_data, apiVars>>

\* main.rs 123-125 and 212-214: get_proof.
health_get_proof ==
    /\ pc = "h_fetch"
    /\ \E r \in GetProofResults :
        /\ hist' = NewCycle(hist, r, StoredFingerprint(previous_proof_t))
        /\ proof' = r.proof
        /\ pc' = IF r.ok THEN "gpp_lock" ELSE "h_sleep"
    /\ UNCHANGED <<mode, clock, conn, tables, previous_proof, current_proof,
                   health_data, proof_data, apiVars>>

\* main.rs 128: db.get_previous_proof().
get_previous_proof_lock ==
    /\ pc = "gpp_lock"
    /\ Lock("engine")
    /\ pc' = "gpp_query"
    /\ UNCHANGED <<mode, clock, tables, proof, previous_proof, current_proof,
                   health_data, proof_data, apiVars, hist>>

\* health_compare as it would be if a failed read ended the cycle.
health_compare_err_aborts ==
    /\ pc = "gpp_query"
    /\ Unlock
    /\ \/ /\ previous_proof' = StoredFingerprint(previous_proof_t)
          /\ current_proof' = HexEncode(Unwrap(proof).bytes)
          /\ pc' = IF ShouldSend(previous_proof', current_proof')
                   THEN "h_decode" ELSE "h_sleep_unchanged"
          /\ UNCHANGED hist
       \/ /\ previous_proof' = None
          /\ current_proof' = HexEncode(Unwrap(proof).bytes)
          /\ pc' = "h_sleep"
          /\ hist' = [StorageErr(hist) EXCEPT !.readErr = TRUE]
    /\ UNCHANGED <<mode, clock, tables, proof, health_data, proof_data,
                   apiVars>>

\* main.rs 128-154: the read (an Err counts as None), then the comparison.
health_compare ==
    /\ pc = "gpp_query"
    /\ Unlock
    /\ \/ /\ previous_proof' = StoredFingerprint(previous_proof_t)
          /\ UNCHANGED hist
       \/ /\ previous_proof' = None
          /\ hist' = [StorageErr(hist) EXCEPT !.readErr = TRUE]
    /\ current_proof' = HexEncode(Unwrap(proof).bytes)
    /\ pc' = IF ShouldSend(previous_proof', current_proof')
             THEN "h_decode" ELSE "h_sleep_unchanged"
    /\ UNCHANGED <<mode, clock, tables, proof, health_data, proof_data,
                   apiVars>>

\* main.rs 157-186: borsh::from_slice(..).unwrap() panics on an Err and ends
\* the task; otherwise the HealthCheckData is built, stamped with now.
health_decode ==
    /\ pc = "h_decode"
    /\ LET out == BorshFromSlice(Unwrap(proof).public_values)
       IN  IF out.ok
           THEN /\ health_data' = Some([current_height |-> out.height,
                                        current_root |-> out.root,
                                        timestamp |-> clock])
                /\ pc' = "uhc_lock"
           ELSE /\ pc' = "panicked"
                /\ UNCHANGED health_data
    /\ UNCHANGED <<mode, clock, conn, tables, proof, previous_proof,
                   current_proof, proof_data, apiVars, hist>>

\* The locals of one iteration go out of scope.
EndIteration ==
    /\ pc' = "h_fetch"
    /\ proof' = None
    /\ previous_proof' = None
    /\ current_proof' = <<>>
    /\ health_data' = None
    /\ proof_data' = None
    /\ hist' = [hist EXCEPT !.waited = @ + HealthSleepSecs]
    /\ UNCHANGED <<mode, clock, conn, tables, apiVars>>

\* main.rs 217: the loop's trailing sleep.
health_sleep == pc = "h_sleep" /\ EndIteration

\* health_sleep_unchanged as it would be if the unchanged arm went on to
\* process the proof.
health_unchanged_processed ==
    /\ pc = "h_sleep_unchanged"
    /\ pc' = "h_decode"
    /\ UNCHANGED <<mode, clock, conn, tables, proof, previous_proof,
                   current_proof, health_data, proof_data, apiVars, hist>>

\* health_sleep_unchanged as it would be without the `continue`: the arm
\* sleeps and falls through to the trailing sleep.
health_sleep_unchanged_falls_through ==
    /\ pc = "h_sleep_unchanged"
    /\ pc' = "h_sleep"
    /\ hist' = [hist EXCEPT !.waited = @ + HealthSleepSecs]
    /\ UNCHANGED <<mode, clock, conn, tables, proof, previous_proof,
                   current_proof, health_data, proof_data, apiVars>>

\* main.rs 150-151: the unchanged arm sleeps and `continue`s.
health_sleep_unchanged == pc = "h_sleep_unchanged" /\ EndIteration

\* ----------------------------------------------------------------- api.rs

\* start_api_server: bind the listener, then serve; a bind failure is
\* logged by the task, which then returns.
start_api_server ==
    /\ apiPc = "starting"
    /\ apiPc' \in {"idle", "failed"}
    /\ UNCHANGED <<mode, clock, conn, tables, engineVars, api_result, api_now,
                   response, hist>>

\* get_health_check: state.db.get_latest_health_check() takes the lock ...
get_health_check_lock ==
    /\ apiPc = "idle"
    /\ Lock("api")
    /\ apiPc' = "query"
    /\ UNCHANGED <<mode, clock, tables, engineVars, api_result, api_now,
                   response, hist>>

\* HealthStatus with the comparison turned round.
HealthStatusInverted(timestamp, now) ==
    IF timestamp < now - HealthyMinutes THEN "healthy" ELSE "unhealthy"

\* api.rs 50-56: healthy when the timestamp is after now - 30 minutes.
HealthStatus(timestamp, now) ==
    IF timestamp > now - HealthyMinutes THEN "healthy" ELSE "unhealthy"

\* api.rs 48-78: the three arms of the match.
HealthResponse(result, now) ==
    IF ~result.ok THEN [code |-> 500, body |-> None]
    ELSE IF result.data = None
    THEN [code |-> 404,
          body |-> Some([current_height |-> 0,
                         current_root |-> <<>>,
                         timestamp |-> ToRfc3339(now),
                         status |-> "no_data"])]
    ELSE LET data == Unwrap(result.data)
         IN  [code |-> 200,
              body |-> Some([current_height |-> data.current_height,
                             current_root |-> HexEncode(data.current_root),
                             timestamp |-> ToRfc3339(data.timestamp),
                             status |-> HealthStatus(data.timestamp, now)])]

\* get_health_check as it would be if the handler consumed the row it read.
get_health_check_consuming ==
    /\ apiPc = "query"
    /\ Unlock
    /\ api_result' = Some([ok |-> TRUE, data |-> HealthDataOf(health_check)])
    /\ api_now' = Some(clock)
    /\ response' = Some(HealthResponse(Unwrap(api_result'), clock))
    /\ apiPc' = "responded"
    /\ health_check' = <<>>
    /\ UNCHANGED <<mode, clock, previous_proof_t, engineVars, hist>>

\* ... runs the SELECT, which returns the latest row, no row, or fails, and
\* drops the guard; the handler then takes `now` and builds the response.
get_health_check ==
    /\ apiPc = "query"
    /\ Unlock
    /\ \/ api_result' = Some([ok |-> TRUE, data |-> HealthDataOf(health_check)])
       \/ api_result' = Some([ok |-> FALSE, data |-> None])
    /\ api_now' = Some(clock)
    /\ response' = Some(HealthResponse(Unwrap(api_result'), clock))
    /\ apiPc' = "responded"
    /\ UNCHANGED <<mode, clock, tables, engineVars, hist>>

\* The response is sent and the handler's locals are dropped; axum waits for
\* the next request.
get_health_check_done ==
    /\ apiPc = "responded"
    /\ apiPc' = "idle"
    /\ api_result' = None
    /\ api_now' = None
    /\ response' = None
    /\ UNCHANGED <<mode, clock, conn, tables, engineVars, hist>>

\* api.rs 34-36: GET / answers a fixed text; it does not touch the store.
RootText == <<"Helios Proof Relayer API", "Use /health to get latest health check data">>

root ==
    /\ apiPc = "idle"
    /\ apiPc' = "root"
    /\ response' = Some([code |-> 200, body |-> Some(RootText)])
    /\ UNCHANGED <<mode, clock, conn, tables, engineVars, api_result, api_now,
                   hist>>

\* The text is sent; axum waits for the next request.
root_done ==
    /\ apiPc = "root"
    /\ apiPc' = "idle"
    /\ response' = None
    /\ UNCHANGED <<mode, clock, conn, tables, engineVars, api_result, api_now,
                   hist>>

\* main.rs 232-243: tokio::join! returns once both tasks have concluded: the
\* health-check task only by a panic, the API task only when start_api_server
\* has returned its error (which the task logs; the task itself returns
\* normally).  main then returns the JoinError of the health-check task.
main_join ==
    /\ pc = "panicked"
    /\ apiPc = "failed"
    /\ pc' = "exited"
    /\ UNCHANGED <<mode, clock, conn, tables, proof, previous_proof,
                   current_proof, health_data, proof_data, apiVars, hist>>

\* ------------------------------------------------------------ environment

\* The wall clock advances.
Tick ==
    /\ clock \notin {MaxTicks, StaleAge + MaxTicks}
    /\ clock' = clock + 1
    /\ UNCHANGED <<mode, conn, tables, engineVars, apiVars, hist>>

\* ------------------------------------------------------------ the system

Engine ==
    \/ relayer_get_previous_proof_lock
    \/ relayer_get_previous_proof
    \/ relayer_create_payload
    \/ relayer_send
    \/ relayer_sleep
    \/ clear_all_tables_lock
    \/ clear_all_tables_health_check
    \/ clear_all_tables_previous_proof
    \/ health_get_proof
    \/ get_previous_proof_lock
    \/ health_compare
    \/ health_decode
    \/ update_health_check_lock
    \/ update_health_check_delete
    \/ update_health_check_insert
    \/ update_previous_proof_lock
    \/ update_previous_proof_delete
    \/ update_previous_proof_insert
    \/ health_sleep
    \/ health_sleep_unchanged

Api ==
    \/ start_api_server
    \/ get_health_check_lock
    \/ get_health_check
    \/ get_health_check_done
    \/ root
    \/ root_done

Next == Engine \/ Api \/ main_join \/ Tick

Spec == Init /\ [][Next]_vars

\* tokio keeps polling a task that can run, and a sleep elapses.
FairSpec == Spec /\ WF_vars(Engine) /\ WF_vars(Api) /\ WF_vars(main_join)

\* ----------------------------------------------------------------- claims

\* Positions at which the engine is inside a store call, holding the Mutex.
InStoreCall ==
    {"r_init_query", "gpp_query", "uhc_delete", "uhc_insert", "upp_delete",
     "upp_insert", "clear_health_check", "clear_previous_proof"}

\* The cycle forwarded nothing and called no store write.
CycleDidNothing == hist.answer = "none" /\ hist.writes = 0

\* C1 as stated: a cycle whose fetch returns the same proof as the previous
\* cycle's fetch takes the SKIP path: it forwards nothing and writes nothing.
C1_RepeatedFetchIsSkipped == hist.repeat => CycleDidNothing

\* C1 amended: a cycle that fetches the proof whose fingerprint the engine
\* held when the cycle started (the in-memory value in relayer mode, the
\* stored row in health-check mode) and, in health-check mode, reads the row
\* without error, forwards nothing and calls no store write.
C1_HeldFingerprintIsSkipped ==
    (IsSome(hist.fetched) /\ hist.fetched = hist.fpAtStart /\ ~hist.readErr)
        => (CycleDidNothing /\ pc \notin {"r_send", "h_decode", "panicked"})

\* A second consecutive fetch of a held proof went down the SKIP path.
C1_Witness ==
    /\ hist.repeat
    /\ hist.fetched = hist.fpAtStart
    /\ pc \in {"r_sleep", "h_sleep_unchanged"}

C3_PersistOnlyAfterSuccess ==
    (mode = "relayer" /\ pc \in {"upp_lock", "upp_delete", "upp_insert"})
        => hist.answer = "success"

\* C4: a GET /health read runs only while the engine is outside its store
\* calls, so never between a DELETE and its INSERT, and it returns the
\* latest row of health_check whole.
C4_ReadsAreAtomic ==
    [][(apiPc = "query" /\ apiPc' = "responded")
          => /\ pc \notin InStoreCall
             /\ Unwrap(api_result').ok
                  => Unwrap(api_result').data = HealthDataOf(health_check)]_vars

\* A request is waiting for the Mutex while the engine is between the
\* DELETE and the INSERT of a snapshot that replaces an existing row.
C4_Witness ==
    /\ pc = "uhc_insert"
    /\ conn = "engine"
    /\ health_check = <<>>
    /\ hist.hadSnapshot
    /\ apiPc = "idle"

\* C5 as stated: once a row exists, no store call leaves its table empty
\* when it returns, whether the call succeeds or fails.
C5_FailedWriteKeepsRow ==
    (conn = "free" /\ pc # "h_clear")
        => /\ hist.hadSnapshot => health_check # <<>>
           /\ hist.hadFingerprint => previous_proof_t # <<>>

\* C6: each table holds at most one row.
C6_AtMostOneRow == Len(health_check) <= 1 /\ Len(previous_proof_t) <= 1

\* Both rows have been replaced by the rows of a later, different proof.
C6_Witness ==
    /\ Len(health_check) = 1
    /\ Len(previous_proof_t) = 1
    /\ IsSome(hist.fpAtStart)
    /\ previous_proof_t[1].proof_data # Unwrap(hist.fpAtStart)
    /\ hist.writes = 2
    /\ pc = "h_sleep"

\* The engine has just left the fetch, which failed.
FetchFailed == pc \in {"r_fetch", "h_fetch"} /\ pc' # pc /\ hist'.fetched = None

\* C7: a failed fetch takes the engine straight to its sleep with both
\* tables and the compared value unchanged and nothing forwarded, and from
\* that sleep the engine starts another fetch.
C7_FailedFetchAbortsCycle ==
    /\ [][FetchFailed
            => /\ pc' = SleepPc
               /\ UNCHANGED <<health_check, previous_proof_t, previous_proof>>
               /\ hist'.answer = "none" /\ hist'.writes = 0]_vars
    /\ (pc \in {"r_sleep", "h_sleep"} /\ hist.fetched = None)
          ~> (pc \in {"r_fetch", "h_fetch"})

\* The engine sleeps after a failed fetch.
C7_Witness == pc \in {"r_sleep", "h_sleep"} /\ hist.fetched = None

\* C8 as stated: when the public values of a changed proof do not decode,
\* the health-check loop goes to its sleep with both tables unchanged.
C8_DecodeErrorGoesToSleep ==
    [][(pc = "h_decode" /\ pc' # pc
        /\ ~BorshFromSlice(Unwrap(proof).public_values).ok)
          => (pc' = "h_sleep" /\ UNCHANGED <<health_check, previous_proof_t>>)]_vars

\* C9 as stated: a cycle in which a store call returned an error still has
\* its loop running: the task has not ended.
C9_StorageErrorKeepsLoopRunning ==
    hist.storageErr => pc \notin {"panicked", "exited"}

\* C10: a GET /health that finds a snapshot answers 200 with the height and
\* the hex of the root of the stored row, "healthy" when the row is less than
\* 30 minutes old at the request's `now` and "unhealthy" when it is older.
C10_HealthClassification ==
    [][(apiPc = "query" /\ apiPc' = "responded" /\ Unwrap(api_result').ok
        /\ health_check # <<>>)
          => LET row == health_check[Len(health_check)]
                 age == clock - ParseFromRfc3339(row.timestamp)
                 resp == Unwrap(response')
                 body == Unwrap(resp.body)
             IN  /\ resp.code = 200
                 /\ body.current_height = row.current_height
                 /\ body.current_root = HexEncode(row.current_root)
                 /\ body.status \in {"healthy", "unhealthy"}
                 /\ age < HealthyMinutes => body.status = "healthy"
                 /\ age > HealthyMinutes => body.status = "unhealthy"]_vars

\* A request found a snapshot 31 minutes old and answered "unhealthy".
C10_Witness ==
    /\ apiPc = "responded"
    /\ Unwrap(response).code = 200
    /\ Unwrap(Unwrap(response).body).status = "unhealthy"
    /\ Unwrap(api_now) - Unwrap(Unwrap(api_result).data).timestamp = HealthyMinutes + 1

\* C11 as stated: a GET /health whose read succeeds answers 404 "no_data"
\* exactly when this process has never written a snapshot, and 200 exactly
\* when a snapshot row is present; it answers 500 exactly when the read fails.
C11_NoDataIffNeverWritten ==
    [][(apiPc = "query" /\ apiPc' = "responded")
          => LET result == Unwrap(api_result')
                 resp == Unwrap(response')
             IN  /\ resp.code \in {200, 404, 500}
                 /\ resp.code = 500 <=> ~result.ok
                 /\ resp.code = 404 => Unwrap(resp.body).status = "no_data"
                 /\ resp.code = 200 => Unwrap(resp.body).status # "no_data"
                 /\ result.ok => (resp.code = 404 <=> hist.lastObserved = None)
                 /\ result.ok => (resp.code = 200 <=> health_check # <<>>)]_vars

\* The health-check loop is at its trailing sleep after a cycle that fetched
\* a proof whose fingerprint differs from the stored one (or none was stored).
ChangedProofCycleDone ==
    pc = "h_sleep" /\ IsSome(hist.fetched) /\ hist.fetched # hist.fpAtStart

\* Both tables hold the rows of the fetched proof: the decoded height and
\* root with the time taken after the decode, and the hex of the proof bytes.
BothRowsPersisted ==
    LET out == BorshFromSlice(Unwrap(proof).public_values)
    IN  /\ out.ok
        /\ Len(health_check) = 1
        /\ health_check[1].current_height = out.height
        /\ health_check[1].current_root = out.root
        /\ health_check[1].timestamp = ToRfc3339(Unwrap(health_data).timestamp)
        /\ Unwrap(health_data).timestamp <= clock
        /\ Len(previous_proof_t) = 1
        /\ previous_proof_t[1].proof_data = HexEncode(Unwrap(proof).bytes)

\* The snapshot is stamped with the time at which the decode succeeded, and
\* a successful decode goes on to the two writes.
DecodeStampsNow ==
    [][(pc = "h_decode" /\ pc' # pc
        /\ BorshFromSlice(Unwrap(proof).public_values).ok)
          => (pc' = "uhc_lock" /\ Unwrap(health_data').timestamp = clock)]_vars

\* C12 as stated: a health-check cycle that fetched a changed proof whose
\* public values decode has persisted the new snapshot and the new
\* fingerprint when it reaches its sleep, and has forwarded nothing.
C12_ChangedProofIsPersisted ==
    /\ [](ChangedProofCycleDone => (BothRowsPersisted /\ hist.answer = "none"))
    /\ DecodeStampsNow

\* C12 amended: such a cycle has called both writes and forwarded nothing
\* when it reaches its sleep, and when no store call of the cycle returned an
\* error both tables hold the rows of the fetched proof.
C12_ChangedProofIsPersistedUnlessStorageError ==
    /\ [](ChangedProofCycleDone
            => /\ hist.writes = 2
               /\ hist.answer = "none"
               /\ ~hist.storageErr => BothRowsPersisted)
    /\ DecodeStampsNow

\* A cycle replaced the rows of proof A by those of proof B without a
\* storage error.
C12_Witness ==
    /\ ChangedProofCycleDone
    /\ hist.fpAtStart = Some(HexEncode(ProofA.bytes))
    /\ hist.fetched = Some(HexEncode(ProofB.bytes))
    /\ ~hist.storageErr
    /\ BothRowsPersisted

\* Positions at which the engine waits on the network or on its timer.
NetworkOrSleep ==
    {"r_fetch", "r_send", "r_sleep", "h_fetch", "h_sleep", "h_sleep_unchanged"}

\* C13: the Mutex is held by the engine only inside a store call and by the
\* handler only inside its read, so never while the engine fetches, forwards
\* or sleeps; a GET /health arriving then takes the lock at once, and whoever
\* holds the lock can always take its next step and release it.
C13_LockOnlyInsideStoreCalls ==
    /\ conn = "engine" <=> pc \in InStoreCall
    /\ conn = "api" <=> apiPc = "query"
    /\ (apiPc = "idle" /\ pc \in NetworkOrSleep) => ENABLED get_health_check_lock
    /\ apiPc = "query" => ENABLED get_health_check
    /\ pc \in InStoreCall => ENABLED Engine

\* A request reads the store while the engine sleeps after a skipped cycle.
C13_Witness ==
    /\ apiPc = "query"
    /\ conn = "api"
    /\ pc = "h_sleep_unchanged"

\* C14: no step of the API task (start, GET /health with any outcome, GET /)
\* changes the health_check table or the previous_proof table.
C14_ApiWritesNothing ==
    [][Api => UNCHANGED <<health_check, previous_proof_t>>]_vars

\* GET /health has answered 200 from a store that holds both rows, and the
\* rows are still there.
C14_Witness ==
    /\ apiPc = "responded"
    /\ Unwrap(response).code = 200
    /\ health_check # <<>>
    /\ previous_proof_t # <<>>
    /\ IsSome(hist.lastObserved)

\* C15 as stated: once the health-check task has panicked or the API task
\* has failed to start, the process eventually exits with an error.
C15_FatalTaskFailureExits ==
    (pc = "panicked" \/ apiPc = "failed") ~> (pc = "exited")

\* The cycle's store writes have all returned Ok and the loop is at its sleep.
WritesSucceeded ==
    /\ ~hist.storageErr
    /\ \/ pc = "h_sleep" /\ hist.writes = 2
       \/ pc = "r_sleep" /\ hist.writes = 1

\* C16: a successful update_health_check makes get_latest_health_check
\* return the data just written and leaves what get_previous_proof returns
\* unchanged; a successful update_previous_proof makes get_previous_proof
\* return the proof just written and leaves what get_latest_health_check
\* returns unchanged; once the cycle's writes have succeeded both reads
\* return the most recent write.
C16_StoreRoundTrip ==
    /\ [][/\ (pc = "uhc_insert" /\ health_check' # health_check)
               => /\ HealthDataOf(health_check') = health_data
                  /\ PreviousProofOf(previous_proof_t')
                       = PreviousProofOf(previous_proof_t)
          /\ (pc = "upp_insert" /\ previous_proof_t' # previous_proof_t)
               => /\ PreviousProofOf(previous_proof_t') = proof_data
                  /\ HealthDataOf(health_check') = HealthDataOf(health_check)
          /\ (pc = "uhc_delete" /\ pc' # pc)
               => UNCHANGED previous_proof_t
          /\ (pc = "upp_delete" /\ pc' # pc)
               => UNCHANGED health_check]_vars
    /\ [](WritesSucceeded
            => /\ PreviousProofOf(previous_proof_t) = proof_data
               /\ mode = "health" => HealthDataOf(health_check) = health_data)

\* The relayer has replaced the stored fingerprint by that of another proof
\* and reads back what it wrote.
C16_Witness ==
    /\ mode = "relayer"
    /\ WritesSucceeded
    /\ IsSome(hist.fpAtStart)
    /\ StoredFingerprint(previous_proof_t) = Some(current_proof)
    /\ StoredFingerprint(previous_proof_t) # hist.fpAtStart

\* Positions of the health-check loop inside update_health_check.
InSnapshotWrite == {"uhc_lock", "uhc_delete", "uhc_insert"}

\* C17: the timestamp a snapshot write stores is not earlier than that of
\* the row it replaces nor than that of the last snapshot this process
\* wrote, and a snapshot write happens only in a cycle whose fetch returned
\* a proof that the comparison did not find unchanged.
C17_ObservedAtMonotoneAfterFetch ==
    /\ [][(pc = "uhc_insert" /\ health_check' # health_check
           /\ IsSome(hist.lastObserved))
             => Unwrap(hist.lastObserved)
                  <= ParseFromRfc3339(health_check'[1].timestamp)]_vars
    /\ [](pc \in InSnapshotWrite
            => /\ IsSome(proof)
               /\ hist.fetched = Some(current_proof)
               /\ ShouldSend(previous_proof, current_proof)
               /\ health_check # <<>>
                    => ParseFromRfc3339(health_check[1].timestamp)
                         <= Unwrap(health_data).timestamp)

\* A second snapshot is about to be written, stamped later than the first.
C17_Witness ==
    /\ pc = "uhc_insert"
    /\ IsSome(hist.lastObserved)
    /\ Unwrap(hist.lastObserved) < Unwrap(health_data).timestamp

\* The interval of the running mode, in seconds.
SleepSecs == IF mode = "relayer" THEN RelayerSleepSecs ELSE HealthSleepSecs

\* Positions at which a loop sleeps.
Sleeping == {"r_sleep", "h_sleep", "h_sleep_unchanged"}

\* Positions of the start-up code, from which the first fetch is entered.
StartUp == {"r_init_query", "clear_health_check", "clear_previous_proof"}

\* C18: a loop enters its next fetch only from a sleep, having slept nothing
\* earlier in the cycle and exactly one interval in all: 30 seconds in
\* relayer mode, 120 seconds in health-check mode, on the unchanged path too.
C18_OneIntervalPerCycle ==
    /\ [][(pc' \in {"r_fetch", "h_fetch"} /\ pc' # pc /\ pc \notin StartUp)
            => /\ pc \in Sleeping
               /\ hist.waited = 0
               /\ hist'.waited = SleepSecs]_vars
    /\ [](pc \notin {"r_fetch", "h_fetch"} => hist.waited = 0)

\* The health-check loop is back at its fetch after the unchanged path,
\* having waited 120 seconds.
C18_Witness ==
    /\ pc = "h_fetch"
    /\ IsSome(hist.fetched)
    /\ hist.fetched = hist.fpAtStart
    /\ ~hist.readErr
    /\ hist.waited = HealthSleepSecs

\* C19 as stated: at every cycle boundary of the relayer loop the in-memory
\* previous proof equals the fingerprint in the previous_proof row, which is
\* what a restart would load.
C19_MemoryEqualsPersisted ==
    (mode = "relayer" /\ pc \in {"r_fetch", "r_sleep"})
        => previous_proof = StoredFingerprint(previous_proof_t)

\* C20 as stated: in relayer mode a proof is POSTed to the registry, and
\* recorded as the fingerprint, only after its public values have decoded.
C20_ForwardOnlyDecodable ==
    (mode = "relayer" /\ pc \in {"r_send", "upp_lock", "upp_delete", "upp_insert"})
        => BorshFromSlice(Unwrap(proof).public_values).ok

\* The proofs whose fingerprint is fp.
ProofsWithFingerprint(fp) == {p \in RawProofs : HexEncode(p.bytes) = fp}

\* C21 as stated: whenever the health-check loop sleeps and a fingerprint is
\* stored, a snapshot is stored too, and its height and root are the decoded
\* public values of the proof with that fingerprint.
C21_FingerprintImpliesItsSnapshot ==
    (mode = "health" /\ pc \in {"h_sleep", "h_sleep_unchanged"}
     /\ previous_proof_t # <<>>)
        => /\ health_check # <<>>
           /\ \A p \in ProofsWithFingerprint(previous_proof_t[1].proof_data) :
                LET out == BorshFromSlice(p.public_values)
                IN  /\ out.ok
                    /\ health_check[1].current_height = out.height
                    /\ health_check[1].current_root = out.root

\* The decoded public values of the fetched proof.
DecodedOutputs == BorshFromSlice(Unwrap(proof).public_values)

\* C22: a health-check cycle whose fingerprint read fails compares against
\* None and goes on to the decode whatever is stored; when the decode
\* succeeds it builds the snapshot from the decoded height and root and the
\* current time and calls both writes before it sleeps; a write that
\* succeeds stores that snapshot, and the hex of the fetched proof's bytes.
C22_ReadErrorProcessesAsNew ==
    /\ [][/\ (pc = "gpp_query" /\ pc' # pc /\ hist'.readErr)
               => (previous_proof' = None /\ pc' = "h_decode")
          /\ (hist.readErr /\ pc = "h_decode" /\ pc' # pc /\ DecodedOutputs.ok)
               => /\ pc' = "uhc_lock"
                  /\ health_data' = Some([current_height |-> DecodedOutputs.height,
                                          current_root |-> DecodedOutputs.root,
                                          timestamp |-> clock])
          /\ (hist.readErr /\ pc = "uhc_insert" /\ health_check' # health_check)
               => /\ HealthDataOf(health_check') = health_data
                  /\ hist'.lastObserved = Some(Unwrap(health_data).timestamp)
          /\ (hist.readErr /\ pc = "upp_insert"
              /\ previous_proof_t' # previous_proof_t)
               => StoredFingerprint(previous_proof_t')
                    = Some(HexEncode(Unwrap(proof).bytes))]_vars
    /\ [](hist.readErr
            => /\ pc # "h_sleep_unchanged"
               /\ pc = "h_sleep" => (hist.writes = 2 /\ hist.answer = "none"))

\* A cycle whose fingerprint read failed has rewritten both rows for a proof
\* byte-identical to the stored one, with a later timestamp than the
\* snapshot it replaced.
C22_Witness ==
    /\ pc = "h_sleep"
    /\ hist.readErr
    /\ IsSome(hist.fetched)
    /\ hist.fetched = hist.fpAtStart
    /\ hist.writes = 2
    /\ BothRowsPersisted
    /\ hist.lastObserved = Some(Unwrap(health_data).timestamp)
    /\ Unwrap(health_data).timestamp > 0

====
